---- MODULE Spec2Model ----
(***************************************************************************)
(* A model of content/ForwardSimulation.ipynb: a forward-time Wright-Fisher *)
(* simulator that records nodes, edges and individuals in tskit tables and  *)
(* simplifies them on a cadence.                                            *)
(*                                                                          *)
(* Identifiers are the 0-based row numbers of the notebook; a table is a    *)
(* sequence whose (id + 1)-th element is row id.  Random draws are inputs   *)
(* of the actions.  Genomic positions are the integers 0 .. sequence_length *)
(* and an edge covers the half-open interval [left, right).                 *)
(***************************************************************************)
EXTENDS Integers, Sequences, FiniteSets, TLC

(* ------------------------------ sizes --------------------------------- *)

\* sequence_length (50_000 in the notebook), scaled to a handful of sites.
sequence_length == 3
\* focal_region = [20_000, 21_000], scaled into [0, sequence_length).
focal_left == 1
focal_right == 2
\* The largest number of breakpoints random.poisson is let to return in one
\* call of add_inheritance_paths, and in all the calls of one simulation.
MaxBreaks == 2
MaxRunBreaks == 2
\* tskit.NULL and tskit.NODE_IS_SAMPLE
NULL == -1
NODE_IS_SAMPLE == 1

(* ----------------------------- helpers -------------------------------- *)

Min(S) == CHOOSE m \in S : \A o \in S : m <= o
Max(S) == CHOOSE m \in S : \A o \in S : m >= o
Range(s) == {s[i] : i \in DOMAIN s}

\* The element of a one-element set: The({F(v) : v \in {e}}) is F(e) with e
\* computed once.
The(S) == CHOOSE x \in S : TRUE

\* The elements of a set of integers in ascending order (np.unique's order).
RECURSIVE SortedSeq(_)
SortedSeq(S) ==
  IF S = {} THEN <<>> ELSE The({<<m>> \o SortedSeq(S \ {m}) : m \in {Min(S)}})

\* Row id of a table, and the append that returns the new row's id.
Row(table, id) == table[id + 1]
NumRows(table) == Len(table)

\* add_row putting the new edge in front of the others.
edges_add_row_first(tables, left, right, parent, child) ==
  [tables EXCEPT !.edges = <<[left |-> left, right |-> right,
                              parent |-> parent, child |-> child]>> \o @]

EmptyTables == [nodes |-> <<>>, edges |-> <<>>, individuals |-> <<>>]

edges_add_row(tables, left, right, parent, child) ==
  [tables EXCEPT !.edges =
     Append(@, [left |-> left, right |-> right, parent |-> parent, child |-> child])]

(* ----------------------- add_inheritance_paths ------------------------ *)

\* A draw of the generator for one call: the breakpoints random.uniform or
\* random.integers returned (num_recombinations of them) and inherit_from.
BreakSeqs(positions, most) == UNION {[1..n -> positions] : n \in 0..most}
\* random.uniform(0, L): positions in [0, L), here on the integer grid.
ContinuousPositions == 0..(sequence_length - 1)
\* random.integers(0, L - 1): the high end is exclusive.
IntegerPositions == 0..(sequence_length - 2)

PolicyDraws(policy, most) ==
  CASE policy = "norec" ->
         {[breakpoints |-> <<>>, inherit_from |-> i] : i \in 0..1}
    [] policy = "continuous" ->
         {[breakpoints |-> b, inherit_from |-> i] :
            b \in BreakSeqs(ContinuousPositions, most), i \in 0..1}
    [] policy = "integer" ->
         {[breakpoints |-> b, inherit_from |-> i] :
            b \in BreakSeqs(IntegerPositions, most), i \in 0..1}

\* for left, right in zip(lefts, rights): add_row(...); inherit_from = 1 - inherit_from
RECURSIVE add_alternating(_, _, _, _, _, _)
add_alternating(tables, lefts, rights, parent_genomes, child_genome, inherit_from) ==
  IF lefts = <<>> \/ rights = <<>> THEN tables
  ELSE add_alternating(
         edges_add_row(tables, Head(lefts), Head(rights),
                       parent_genomes[inherit_from + 1], child_genome),
         Tail(lefts), Tail(rights), parent_genomes, child_genome, 1 - inherit_from)

\* The first version with an edge from each parental genome.
add_inheritance_paths_norec_both(tables, parent_genomes, child_genome, draw) ==
  edges_add_row(edges_add_row(tables, focal_left, focal_right, parent_genomes[1],
                              child_genome),
                focal_left, focal_right, parent_genomes[2], child_genome)

\* The first version: one edge over focal_region from a random parental genome.
add_inheritance_paths_norec(tables, parent_genomes, child_genome, draw) ==
  edges_add_row(tables, focal_left, focal_right,
                parent_genomes[draw.inherit_from + 1], child_genome)

\* The second version: breakpoints = [0] + np.unique(breakpoints) + [L].
add_inheritance_paths_continuous(tables, parent_genomes, child_genome, draw) ==
  LET breakpoints ==
        <<0>> \o SortedSeq(Range(draw.breakpoints)) \o <<sequence_length>>
      n == Len(breakpoints)
  IN add_alternating(tables, SubSeq(breakpoints, 1, n - 1), SubSeq(breakpoints, 2, n),
                     parent_genomes, child_genome, draw.inherit_from)

\* counts of np.unique(breakpoints, return_counts=True)
Count(breakpoints, pos) == Cardinality({i \in DOMAIN breakpoints : breakpoints[i] = pos})

\* crossovers = break_pos[counts % 2 == 1]
Crossovers(breakpoints) ==
  SortedSeq({pos \in Range(breakpoints) : Count(breakpoints, pos) % 2 = 1})

\* The third version without the closing np.append(crossovers, L).
add_inheritance_paths_integer_unclosed(tables, parent_genomes, child_genome, draw) ==
  LET crossovers == Crossovers(draw.breakpoints)
  IN add_alternating(tables, <<0>> \o crossovers, crossovers,
                     parent_genomes, child_genome, draw.inherit_from)

\* The third version: integer positions, breaks drawn an even number of times cancel.
add_inheritance_paths_integer(tables, parent_genomes, child_genome, draw) ==
  LET crossovers == Crossovers(draw.breakpoints)
      left_positions == <<0>> \o crossovers
      right_positions == crossovers \o <<sequence_length>>
  IN add_alternating(tables, left_positions, right_positions,
                     parent_genomes, child_genome, draw.inherit_from)

\* The definition of add_inheritance_paths in force when a simulation is run.
add_inheritance_paths(policy, tables, parent_genomes, child_genome, draw) ==
  CASE policy = "norec" ->
         add_inheritance_paths_norec(tables, parent_genomes, child_genome, draw)
    [] policy = "continuous" ->
         add_inheritance_paths_continuous(tables, parent_genomes, child_genome, draw)
    [] policy = "integer" ->
         add_inheritance_paths_integer(tables, parent_genomes, child_genome, draw)

(* ------------------------------ tables -------------------------------- *)

\* tables.individuals.add_row(parents=...): parents None is the empty tuple.
individuals_add_row(tables, parents) ==
  [tables EXCEPT !.individuals = Append(@, [parents |-> parents])]

\* tables.nodes.add_row(flags, time, individual=...).  origin is a history
\* field no operation reads: the node's cohort and its rank in it at creation.
nodes_add_row(tables, flags, time, individual) ==
  [tables EXCEPT !.nodes =
     Append(@, [flags |-> flags, time |-> time, individual |-> individual,
                origin |-> <<time,
                             Cardinality({i \in DOMAIN tables.nodes :
                                            tables.nodes[i].time = time})>>])]

\* A population is an insertion-ordered dict {individual id: (genome, genome)}.
dict_keys(pop) == [i \in DOMAIN pop |-> pop[i].key]
dict_has(pop, key) == \E i \in DOMAIN pop : pop[i].key = key
dict_get(pop, key) == pop[CHOOSE i \in DOMAIN pop : pop[i].key = key].value
dict_set(pop, key, value) ==
  IF dict_has(pop, key)
  THEN [i \in DOMAIN pop |-> IF pop[i].key = key THEN [key |-> key, value |-> value]
                                                 ELSE pop[i]]
  ELSE Append(pop, [key |-> key, value |-> value])
\* [u for genomes in pop.values() for u in genomes]
RECURSIVE dict_genomes(_)
dict_genomes(pop) ==
  IF pop = <<>> THEN <<>> ELSE Head(pop).value \o dict_genomes(Tail(pop))

\* numpy indexing of a column: a negative index counts from the end.
NumpyIndex(column, i) ==
  IF i >= 0 THEN column[i + 1] ELSE column[Len(column) + i + 1]
nodes_individual(tables) == [i \in DOMAIN tables.nodes |-> tables.nodes[i].individual]

(* ----------------------------- advancers ------------------------------ *)

\* make_diploid with the second genome left outside the individual.
make_diploid_split(tables, time, parent_individuals) ==
  LET individual_id == NumRows(tables.individuals)
      t0 == individuals_add_row(tables, parent_individuals)
      n1 == NumRows(t0.nodes)
      t1 == nodes_add_row(t0, 0, time, individual_id)
      n2 == NumRows(t1.nodes)
      t2 == nodes_add_row(t1, 0, time, NULL)
  IN [tables |-> t2, individual_id |-> individual_id, genomes |-> <<n1, n2>>]

\* make_diploid: one individual row, then its two node rows (flags default 0).
make_diploid(tables, time, parent_individuals) ==
  LET individual_id == NumRows(tables.individuals)
      t0 == individuals_add_row(tables, parent_individuals)
      n1 == NumRows(t0.nodes)
      t1 == nodes_add_row(t0, 0, time, individual_id)
      n2 == NumRows(t1.nodes)
      t2 == nodes_add_row(t1, 0, time, individual_id)
  IN [tables |-> t2, individual_id |-> individual_id, genomes |-> <<n1, n2>>]

\* for child_genome, parent_individual in zip(child_genomes, mother_and_father):
\*     add_inheritance_paths(tables, prev_pop[parent_individual], child_genome)
inherit_both(policy, tables, prev_pop, child_genomes, mother_and_father, draws) ==
  LET t1 == add_inheritance_paths(policy, tables, dict_get(prev_pop, mother_and_father[1]),
                                  child_genomes[1], draws[1])
  IN add_inheritance_paths(policy, t1, dict_get(prev_pop, mother_and_father[2]),
                           child_genomes[2], draws[2])

\* random.choice(prev_individuals, 2, replace=True): choice holds the two
\* drawn positions (1-based) of the array of the previous population's keys.
random_choice(prev_individuals, choice) ==
  <<prev_individuals[choice[1]], prev_individuals[choice[2]]>>

\* One iteration of the loop of new_pop.
new_pop_iter(policy, tables, time, prev_pop, pop, choice, draws) ==
  LET prev_individuals == dict_keys(prev_pop)
      mother_and_father == random_choice(prev_individuals, choice)
      made == make_diploid(tables, time, mother_and_father)
  IN [tables |-> inherit_both(policy, made.tables, prev_pop, made.genomes,
                              mother_and_father, draws),
      pop |-> dict_set(pop, made.individual_id, made.genomes)]

\* initialise_pop: dict(make_diploid(tables, time) for _ in range(size)).
RECURSIVE initialise_pop_from(_, _, _, _)
initialise_pop_from(tables, time, pop, size) ==
  IF size = 0 THEN [tables |-> tables, pop |-> pop]
  ELSE The({initialise_pop_from(made.tables, time,
                                dict_set(pop, made.individual_id, made.genomes), size - 1) :
              made \in {make_diploid(tables, time, <<>>)}})
initialise_pop(tables, time, size) == initialise_pop_from(tables, time, <<>>, size)

\* One iteration of the loop of new_population (the first notebook version).
\* prev_population None is the empty dict: both are falsy.  first_choice is the
\* draw recorded in the individual table, choice the draw the edges follow.
new_population_iter(policy, tables, time, prev_population, new_population, first_choice, choice, draws) ==
  LET prev_individuals == dict_keys(prev_population)
      parent_individual_ids ==
        IF prev_population # <<>> THEN random_choice(prev_individuals, first_choice)
        ELSE <<>>
      i == NumRows(tables.individuals)
      t0 == individuals_add_row(tables, parent_individual_ids)
      n1 == NumRows(t0.nodes)
      t1 == nodes_add_row(t0, NODE_IS_SAMPLE, time, i)
      n2 == NumRows(t1.nodes)
      t2 == nodes_add_row(t1, NODE_IS_SAMPLE, time, i)
      child_genomes == <<n1, n2>>
      mother_and_father == random_choice(prev_individuals, choice)
  IN [tables |-> IF prev_population # <<>>
                 THEN inherit_both(policy, t2, prev_population, child_genomes,
                                   mother_and_father, draws)
                 ELSE t2,
      pop |-> dict_set(new_population, i, child_genomes)]

(* ----------------------- tskit: sort and simplify --------------------- *)

node_time(tables, u) == Row(tables.nodes, u).time

\* The order of tables.sort(): by time of parent, then parent, child, left.
EdgeBefore(tables, a, b) ==
  LET ta == node_time(tables, a.parent)
      tb == node_time(tables, b.parent)
  IN \/ ta < tb
     \/ /\ ta = tb
        /\ \/ a.parent < b.parent
           \/ /\ a.parent = b.parent
              /\ \/ a.child < b.child
                 \/ a.child = b.child /\ a.left < b.left

\* The rows `rest` (indices of the edge table) in sorted order; rows the key
\* does not tell apart keep the order they had.
RECURSIVE SortRows(_, _)
SortRows(tables, rest) ==
  IF rest = {} THEN <<>>
  ELSE The({<<tables.edges[first]>> \o SortRows(tables, rest \ {first}) :
              first \in {CHOOSE i \in rest : \A j \in rest \ {i} :
                           \/ EdgeBefore(tables, tables.edges[i], tables.edges[j])
                           \/ /\ ~EdgeBefore(tables, tables.edges[j], tables.edges[i])
                              /\ i < j}})

\* A set of edges no two of which share parent, child and left, in sorted order.
RECURSIVE EdgesInOrder(_, _)
EdgesInOrder(tables, S) ==
  IF S = {} THEN <<>>
  ELSE The({<<first>> \o EdgesInOrder(tables, S \ {first}) :
              first \in {CHOOSE e \in S : \A o \in S \ {e} : EdgeBefore(tables, e, o)}})

\* tables.sort()
sort(tables) == [tables EXCEPT !.edges = SortRows(tables, DOMAIN tables.edges)]

\* What the integrity check of simplify and of tree_sequence() accepts.
ValidEdge(tables, e) ==
  /\ 0 <= e.left
  /\ e.left < e.right
  /\ e.right <= sequence_length
  /\ node_time(tables, e.parent) > node_time(tables, e.child)

integrity_ok(tables) == \A i \in DOMAIN tables.edges : ValidEdge(tables, tables.edges[i])

\* The parent of node u at site x, or NULL.
ParentAt(edges, x, u) ==
  LET over == {i \in DOMAIN edges :
                 edges[i].child = u /\ edges[i].left <= x /\ x < edges[i].right}
  IN IF over = {} THEN NULL ELSE edges[CHOOSE i \in over : TRUE].parent

\* u and its ancestors at site x, youngest first.
RECURSIVE Lineage(_, _, _)
Lineage(edges, x, u) ==
  The({IF p = NULL THEN <<u>> ELSE <<u>> \o Lineage(edges, x, p) :
         p \in {ParentAt(edges, x, u)}})

IndexOf(seq, v) == CHOOSE i \in DOMAIN seq : seq[i] = v

\* Nodes from the oldest to the youngest.
RECURSIVE NodesByTime_oldest_first(_, _)
NodesByTime_oldest_first(tables, S) ==
  IF S = {} THEN <<>>
  ELSE The({<<u>> \o NodesByTime_oldest_first(tables, S \ {u}) :
              u \in {CHOOSE a \in S : \A b \in S \ {a} :
                       \/ node_time(tables, a) > node_time(tables, b)
                       \/ node_time(tables, a) = node_time(tables, b) /\ a < b}})

\* Nodes in the order simplify meets them: by time, then by id.
RECURSIVE NodesByTime(_, _)
NodesByTime(tables, S) ==
  IF S = {} THEN <<>>
  ELSE The({<<u>> \o NodesByTime(tables, S \ {u}) :
              u \in {CHOOSE a \in S : \A b \in S \ {a} :
                       \/ node_time(tables, a) < node_time(tables, b)
                       \/ node_time(tables, a) = node_time(tables, b) /\ a < b}})

\* The maximal runs of consecutive sites of X, as half-open intervals.
Runs(X) ==
  {[left |-> l, right |-> Min({y \in (l + 1)..sequence_length : y \notin X})] :
     l \in {x \in X : (x - 1) \notin X}}

\* What simplify finds at site x when the input roots are not kept.
SimplifySite_roots_dropped(edges, sample_set, x) ==
  The({LET used == UNION {{<<ln[i + 1], ln[i]>> : i \in 1..(Len(ln) - 1)} : ln \in lns}
           coal == {u \in {pc[1] : pc \in used} :
                      Cardinality({pc \in used : pc[1] = u}) >= 2}
       IN The({[x |-> x, coal |-> coal, roots |-> {},
                out |-> {<<pc[1], pc[2], TRUE>> :
                           pc \in UNION {LET f == SelectSeq(ln, LAMBDA u : u \in kept)
                                         IN {<<f[i + 1], f[i]>> : i \in 1..(Len(f) - 1)} :
                                           ln \in lns}}] :
                 kept \in {sample_set \cup coal}}) :
         lns \in {{Lineage(edges, x, s) : s \in sample_set}}})

\* What simplify finds at site x: the nodes where two sample lineages meet,
\* the roots of the sample lineages, and the retained (parent, child) pairs.
SimplifySite(edges, sample_set, x) ==
  The({LET used == UNION {{<<ln[i + 1], ln[i]>> : i \in 1..(Len(ln) - 1)} : ln \in lns}
           coal == {u \in {pc[1] : pc \in used} :
                      Cardinality({pc \in used : pc[1] = u}) >= 2}
           roots == {ln[Len(ln)] : ln \in lns}
       IN The({[x |-> x, coal |-> coal, roots |-> roots,
                out |-> {<<pc[1], pc[2], pc[1] \in (coal \cup sample_set)>> :
                           pc \in UNION {LET f == SelectSeq(ln, LAMBDA u : u \in kept)
                                         IN {<<f[i + 1], f[i]>> : i \in 1..(Len(f) - 1)} :
                                           ln \in lns}}] :
                 kept \in {sample_set \cup coal \cup roots}}) :
         lns \in {{Lineage(edges, x, s) : s \in sample_set}}})

\* The new ids with the samples in the reverse of the order given.
SimplifyOrder_samples_reversed(tables, samples, sites) ==
  LET sample_set == Range(samples)
      coal_all == UNION {r.coal : r \in sites} \ sample_set
      roots_all == (UNION {r.roots : r \in sites} \ sample_set) \ coal_all
  IN [j \in DOMAIN samples |-> samples[Len(samples) + 1 - j]]
       \o NodesByTime(tables, coal_all) \o SortedSeq(roots_all)

\* The new ids of tables.simplify(samples, keep_input_roots=True): the samples
\* in the order given, then the nodes where lineages meet (by time, then old
\* id), then the remaining roots of sample lineages (by old id).
SimplifyOrder(tables, samples, sites) ==
  LET sample_set == Range(samples)
      coal_all == UNION {r.coal : r \in sites} \ sample_set
      roots_all == (UNION {r.roots : r \in sites} \ sample_set) \ coal_all
  IN samples \o NodesByTime(tables, coal_all) \o SortedSeq(roots_all)

\* The tables simplify leaves and the node_map it returns.  Unary nodes are
\* removed; an edge a root gets only as a kept input root is written apart
\* from the edges it gets where lineages meet; individuals no kept node
\* refers to are removed, the others keep their order.
SimplifyRows(tables, samples, sites, order) ==
  The({LET nodes == tables.nodes
           node_map == [u \in DOMAIN nodes |->
                          IF (u - 1) \in Range(order) THEN IndexOf(order, u - 1) - 1
                          ELSE NULL]
           ind_map(i) == IF i \in Range(ind_order) THEN IndexOf(ind_order, i) - 1 ELSE NULL
           new_edges ==
             UNION {{[left |-> seg.left, right |-> seg.right,
                      parent |-> node_map[t[1] + 1], child |-> node_map[t[2] + 1]] :
                       seg \in Runs({r.x : r \in {q \in sites : t \in q.out}})} :
                    t \in UNION {r.out : r \in sites}}
           new_nodes == [j \in DOMAIN order |->
                           LET old == nodes[order[j] + 1]
                           IN [flags |-> IF j <= Len(samples) THEN NODE_IS_SAMPLE ELSE 0,
                               time |-> old.time,
                               individual |-> ind_map(old.individual),
                               origin |-> old.origin]]
           new_individuals ==
             [j \in DOMAIN ind_order |->
                LET old == tables.individuals[ind_order[j] + 1]
                IN [parents |-> [k \in DOMAIN old.parents |-> ind_map(old.parents[k])]]]
       IN The({[tables |-> [shell EXCEPT !.edges = EdgesInOrder(shell, edges)],
                node_map |-> node_map] :
                 shell \in {[nodes |-> new_nodes, edges |-> <<>>,
                             individuals |-> new_individuals]},
                 edges \in {new_edges}}) :
         ind_order \in {SortedSeq({tables.nodes[u + 1].individual : u \in Range(order)}
                                    \ {NULL})}})

\* node_map = tables.simplify(samples, keep_input_roots=True), on sorted tables.
simplify(tables, samples) ==
  The({The({SimplifyRows(tables, samples, sites, order) :
              order \in {SimplifyOrder(tables, samples, sites)}}) :
         sites \in {{SimplifySite(tables.edges, Range(samples), x) :
                       x \in 0..(sequence_length - 1)}}})

\* The keyword arguments of ts.simplify that the notebook passes.
Options(keep_unary, filter_nodes, keep_input_roots) ==
  [keep_unary |-> keep_unary, filter_nodes |-> filter_nodes,
   keep_input_roots |-> keep_input_roots]

\* What ts.simplify finds at site x under the given options: with keep_unary
\* every node on a path from a sample to its root is retained, with
\* keep_input_roots the roots are, and otherwise only the samples and the
\* nodes where two sample lineages meet.
TsSimplifySite(edges, sample_set, x, options) ==
  The({LET used == UNION {{<<ln[i + 1], ln[i]>> : i \in 1..(Len(ln) - 1)} : ln \in lns}
           coal == {u \in {pc[1] : pc \in used} :
                      Cardinality({pc \in used : pc[1] = u}) >= 2}
           roots == {ln[Len(ln)] : ln \in lns}
       IN The({[x |-> x, coal |-> coal, roots |-> roots, kept |-> kept,
                out |-> {<<pc[1], pc[2],
                           options.keep_unary \/ pc[1] \in (coal \cup sample_set)>> :
                           pc \in UNION {LET f == SelectSeq(ln, LAMBDA u : u \in kept)
                                         IN {<<f[i + 1], f[i]>> : i \in 1..(Len(f) - 1)} :
                                           ln \in lns}}] :
                 kept \in {IF options.keep_unary THEN UNION {Range(ln) : ln \in lns}
                           ELSE IF options.keep_input_roots
                           THEN sample_set \cup coal \cup roots
                           ELSE sample_set \cup coal}}) :
         lns \in {{Lineage(edges, x, s) : s \in sample_set}}})

\* The new ids of ts.simplify when filter_nodes is taken to be True always.
TsSimplifyOrder_filtering(tables, samples, sites, options) ==
  LET sample_set == Range(samples)
      kept_all == UNION {r.kept : r \in sites} \ sample_set
      roots_only == kept_all \ UNION {{t[1] : t \in {q \in r.out : q[3]}} : r \in sites}
  IN samples \o NodesByTime(tables, kept_all \ roots_only) \o SortedSeq(roots_only)

\* The new ids of ts.simplify: with filter_nodes=False every node keeps its
\* id; otherwise the samples come first in the order given, then the other
\* retained nodes from the youngest to the oldest, kept input roots last.
TsSimplifyOrder(tables, samples, sites, options) ==
  LET sample_set == Range(samples)
      kept_all == UNION {r.kept : r \in sites} \ sample_set
      roots_only == kept_all \ UNION {{t[1] : t \in {q \in r.out : q[3]}} : r \in sites}
  IN IF ~options.filter_nodes THEN [j \in 1..NumRows(tables.nodes) |-> j - 1]
     ELSE samples \o NodesByTime(tables, kept_all \ roots_only) \o SortedSeq(roots_only)

\* ts.simplify(samples, **options): the tables of the new tree sequence and
\* the node map.  With filter_nodes=False the node table is left as it is but
\* for the sample flags.
ts_simplify(tables, samples, options) ==
  The({The({The({IF options.filter_nodes THEN made
                 ELSE [made EXCEPT !.tables.nodes =
                         [j \in DOMAIN @ |->
                            [@[j] EXCEPT !.flags = IF (j - 1) \in Range(samples)
                                                   THEN NODE_IS_SAMPLE ELSE 0]]] :
                   made \in {SimplifyRows(tables, samples, sites, order)}}) :
              order \in {TsSimplifyOrder(tables, samples, sites, options)}}) :
         sites \in {{TsSimplifySite(tables.edges, Range(samples), x, options) :
                       x \in 0..(sequence_length - 1)}}})

\* ts.samples() without the time: every node flagged as a sample.
ts_samples_any_time(tables, time) ==
  SortedSeq({u \in 0..(NumRows(tables.nodes) - 1) :
               Row(tables.nodes, u).flags = NODE_IS_SAMPLE})

\* ts.samples(time=time): the nodes flagged as samples at that time, by id.
ts_samples(tables, time) ==
  SortedSeq({u \in 0..(NumRows(tables.nodes) - 1) :
               /\ Row(tables.nodes, u).flags = NODE_IS_SAMPLE
               /\ Row(tables.nodes, u).time = time})

(* --------------------------- simplify_tables -------------------------- *)

\* individual_map[old_nodes_individual[node1_id]] = nodes_individual[node_map[node1_id]]
RECURSIVE individual_map_of(_, _, _, _)
individual_map_of(pop, old_nodes_individual, new_nodes_individual, node_map) ==
  IF pop = <<>> THEN <<>>
  ELSE The({dict_set(rest, NumpyIndex(old_nodes_individual, pop[Len(pop)].value[1]),
                     NumpyIndex(new_nodes_individual,
                                NumpyIndex(node_map, pop[Len(pop)].value[1]))) :
              rest \in {individual_map_of(SubSeq(pop, 1, Len(pop) - 1), old_nodes_individual,
                                          new_nodes_individual, node_map)}})

\* The rebuilt population with the two genomes of every individual exchanged.
RECURSIVE remapped_pop_swapped(_, _, _)
remapped_pop_swapped(pop, individual_map, node_map) ==
  IF pop = <<>> THEN <<>>
  ELSE The({dict_set(rest, dict_get(individual_map, pop[Len(pop)].key),
                     <<NumpyIndex(node_map, pop[Len(pop)].value[2]),
                       NumpyIndex(node_map, pop[Len(pop)].value[1])>>) :
              rest \in {remapped_pop_swapped(SubSeq(pop, 1, Len(pop) - 1), individual_map,
                                             node_map)}})

\* The rebuilt population, filled from the last entry of pop to the first.
RECURSIVE remapped_pop_reversed(_, _, _)
remapped_pop_reversed(pop, individual_map, node_map) ==
  IF pop = <<>> THEN <<>>
  ELSE The({dict_set(rest, dict_get(individual_map, pop[1].key),
                     <<NumpyIndex(node_map, pop[1].value[1]),
                       NumpyIndex(node_map, pop[1].value[2])>>) :
              rest \in {remapped_pop_reversed(Tail(pop), individual_map, node_map)}})

\* {individual_map[ind_id]: (node_map[node1_id], node_map[node2_id]) for ... in pop.items()}
RECURSIVE remapped_pop(_, _, _)
remapped_pop(pop, individual_map, node_map) ==
  IF pop = <<>> THEN <<>>
  ELSE The({dict_set(rest, dict_get(individual_map, pop[Len(pop)].key),
                     <<NumpyIndex(node_map, pop[Len(pop)].value[1]),
                       NumpyIndex(node_map, pop[Len(pop)].value[2])>>) :
              rest \in {remapped_pop(SubSeq(pop, 1, Len(pop) - 1), individual_map, node_map)}})

\* The assertion of the loop, for one entry of pop.
same_individual(entry, new_nodes_individual, node_map) ==
  NumpyIndex(new_nodes_individual, NumpyIndex(node_map, entry.value[1]))
    = NumpyIndex(new_nodes_individual, NumpyIndex(node_map, entry.value[2]))

\* simplify_tables: the tables are sorted and simplified in place, and the
\* population is rebuilt from node_map.  raised is "none" or the exception.
simplify_tables(tables, samples, pop) ==
  The({IF ~integrity_ok(sorted)
       THEN [raised |-> "LibraryError", tables |-> sorted, pop |-> pop]
       ELSE The({The({IF \E i \in DOMAIN pop :
                           ~same_individual(pop[i], nodes_individual(simplified.tables),
                                            simplified.node_map)
                      THEN [raised |-> "AssertionError", tables |-> simplified.tables,
                            pop |-> pop]
                      ELSE IF \E i \in DOMAIN pop : ~dict_has(individual_map, pop[i].key)
                      THEN [raised |-> "KeyError", tables |-> simplified.tables, pop |-> pop]
                      ELSE [raised |-> "none", tables |-> simplified.tables,
                            pop |-> remapped_pop(pop, individual_map, simplified.node_map)] :
                        individual_map \in
                          {individual_map_of(pop, nodes_individual(tables),
                                             nodes_individual(simplified.tables),
                                             simplified.node_map)}}) :
                   simplified \in {simplify(sorted, samples)}}) :
         sorted \in {sort(tables)}})

(* ------------------------------ drivers ------------------------------- *)

\* Python's a % b for b # 0: the result has the sign of b.
PyMod(a, b) == IF b > 0 THEN a % b ELSE 0 - ((0 - a) % (0 - b))

\* call: the call that is modelled and the definitions in force;
\* run: the locals of the driver and the tables, with two history fields:
\*      last_op, the last operation on the tables, breaks, the number of
\*      breakpoints drawn so far, and compactions, the values of generations
\*      at which simplify_tables was called;
\* ref: a second run of diploid_sim on the same random draws with
\*      simplification_interval = 1, or switched off.
VARIABLES call, run, ref
vars == <<call, run, ref>>

\* The largest cohort, number of generations and interval that are run, and
\* the largest number of children (cohort size times generations) of a run.
MaxPop == 2
MaxGenerations == 3
MaxInterval == 3
MaxChildren == 3

NoOp == [name |-> "none", samples |-> <<>>]

FreshRun(generations) ==
  [pc |-> "start", raised |-> "none", generations |-> generations, simplify_modulo |-> 0,
   tables |-> EmptyTables, pop |-> <<>>, child_pop |-> <<>>, last_op |-> NoOp,
   breaks |-> 0, compactions |-> <<>>]

Off == [FreshRun(0) EXCEPT !.pc = "off"]

\* diploid_sim up to the loop: simplify_modulo, then the founders.
diploid_sim_start(r, c) ==
  IF c.simplification_interval = 0
  THEN [r EXCEPT !.pc = "raised", !.raised = "ZeroDivisionError"]
  ELSE IF c.initialise_pop_arity # 3
  THEN [r EXCEPT !.pc = "raised", !.raised = "TypeError",
                 !.simplify_modulo = PyMod(r.generations, c.simplification_interval)]
  ELSE LET made == initialise_pop(r.tables, r.generations, c.diploid_pop_size)
       IN [r EXCEPT !.simplify_modulo = PyMod(r.generations, c.simplification_interval),
                    !.tables = made.tables, !.pop = made.pop, !.pc = "loop",
                    !.last_op = [name |-> "initialise_pop", samples |-> <<>>]]

\* The loop body without generations = generations - 1.
begin_generation_same_time(r) == [r EXCEPT !.child_pop = <<>>, !.pc = "new_pop"]

\* generations = generations - 1, and new_pop is entered.
begin_generation(r) ==
  [r EXCEPT !.generations = @ - 1, !.child_pop = <<>>, !.pc = "new_pop"]

\* One iteration of new_pop; after the last one new_pop returns and pop is replaced.
new_pop_step(r, c, choice, draws) ==
  LET made == new_pop_iter(c.policy, r.tables, r.generations, r.pop, r.child_pop,
                           choice, draws)
      last == Len(r.child_pop) + 1 >= c.diploid_pop_size
  IN [r EXCEPT !.tables = made.tables,
               !.child_pop = IF last THEN <<>> ELSE made.pop,
               !.pop = IF last THEN made.pop ELSE @,
               !.pc = IF ~last THEN "new_pop"
                      ELSE IF c.program = "diploid_sim" THEN "advanced" ELSE "loop",
               !.last_op = [name |-> "new_pop", samples |-> <<>>],
               !.breaks = @ + Len(draws[1].breakpoints) + Len(draws[2].breakpoints)]

\* simplify_tables whose result is dropped: the tables are simplified in
\* place and pop is left as it was.
run_simplify_pop_kept(r, next_pc) ==
  The({[r EXCEPT !.tables = s.tables,
                 !.raised = s.raised,
                 !.pc = IF s.raised = "none" THEN next_pc ELSE "raised",
                 !.last_op = [name |-> "simplify_tables", samples |-> dict_genomes(r.pop)],
                 !.compactions = Append(@, r.generations)] :
         s \in {simplify_tables(r.tables, dict_genomes(r.pop), r.pop)}})

\* pop = simplify_tables(tables, [u for genomes in pop.values() for u in genomes], pop)
run_simplify(r, next_pc) ==
  The({[r EXCEPT !.tables = s.tables, !.pop = s.pop,
                 !.raised = s.raised,
                 !.pc = IF s.raised = "none" THEN next_pc ELSE "raised",
                 !.last_op = [name |-> "simplify_tables", samples |-> dict_genomes(r.pop)],
                 !.compactions = Append(@, r.generations)] :
         s \in {simplify_tables(r.tables, dict_genomes(r.pop), r.pop)}})

\* simplify_tables called once more on what a simplification left, as
\* pop = simplify_tables(tables, samples, pop).  The history field last_op
\* keeps the tables and the population the call was given, and the node map
\* tables.simplify returned to it.
resimplify(r, samples) ==
  The({[r EXCEPT !.tables = s.tables, !.pop = s.pop,
                 !.raised = s.raised,
                 !.pc = IF s.raised = "none" THEN "resimplified" ELSE "raised",
                 !.last_op = [name |-> "simplify_tables", samples |-> samples,
                              node_map |-> node_map,
                              before |-> [tables |-> r.tables, pop |-> r.pop]]] :
         s \in {simplify_tables(r.tables, samples, r.pop)},
         node_map \in {simplify(sort(r.tables), samples).node_map}})

\* The if at the end of the loop body without the test generations > 0.
cadence_also_at_zero(r, c) ==
  IF PyMod(r.generations, c.simplification_interval) = r.simplify_modulo
  THEN run_simplify(r, "loop")
  ELSE [r EXCEPT !.pc = "loop"]

\* The if at the end of the loop body of diploid_sim.
cadence(r, c) ==
  IF r.generations > 0
     /\ PyMod(r.generations, c.simplification_interval) = r.simplify_modulo
  THEN run_simplify(r, "loop")
  ELSE [r EXCEPT !.pc = "loop"]

\* diploid_sim returning the tables as the loop left them.
diploid_sim_finish_unsimplified(r) == [r EXCEPT !.pc = "done"]

\* After the loop: the final simplification, then tables.tree_sequence().
diploid_sim_finish(r) == run_simplify(r, "done")

\* After the loop of simple_diploid_sim: tables.sort(), tables.tree_sequence().
simple_diploid_sim_finish(r) ==
  LET sorted == sort(r.tables)
      ok == integrity_ok(sorted)
  IN [r EXCEPT !.tables = sorted,
               !.raised = IF ok THEN "none" ELSE "LibraryError",
               !.pc = IF ok THEN "done" ELSE "raised",
               !.last_op = [name |-> "sort", samples |-> <<>>]]

\* The cells that simplify the tree sequence simple_diploid_sim returned:
\* simplified_ts = ts.simplify(ts.samples(time=0), **options).  The history
\* field last_op keeps ts, the options and the node map.
ts_simplify_cell(r, options) ==
  The({[r EXCEPT !.tables = s.tables, !.pc = "simplified",
                 !.last_op = [name |-> "ts.simplify", samples |-> ts_samples(r.tables, 0),
                              options |-> options, node_map |-> s.node_map,
                              ts |-> r.tables]] :
         s \in {ts_simplify(r.tables, ts_samples(r.tables, 0), options)}})

\* The initial population of the first simple_diploid_sim:
\* new_population(tables, generations), which draws nothing.
RECURSIVE first_population(_, _, _, _)
first_population(tables, time, pop, size) ==
  IF size = 0 THEN [tables |-> tables, pop |-> pop]
  ELSE The({first_population(made.tables, time, made.pop, size - 1) :
              made \in {new_population_iter("norec", tables, time, <<>>, pop,
                                            <<1, 1>>, <<1, 1>>, <<>>)}})

\* simple_diploid_sim up to the loop, in either version of the notebook.
simple_diploid_sim_start(r, c) ==
  LET made == IF c.advancer = "new_population"
              THEN first_population(r.tables, r.generations, <<>>, c.diploid_pop_size)
              ELSE initialise_pop(r.tables, r.generations, c.diploid_pop_size)
  IN [r EXCEPT !.tables = made.tables, !.pop = made.pop, !.pc = "loop",
               !.last_op = [name |-> "initialise_pop", samples |-> <<>>]]

\* One iteration of new_population; after the last one it returns.
new_population_step(r, c, first_choice, choice, draws) ==
  LET made == new_population_iter(c.policy, r.tables, r.generations, r.pop, r.child_pop,
                                  first_choice, choice, draws)
      last == Len(r.child_pop) + 1 >= c.diploid_pop_size
  IN [r EXCEPT !.tables = made.tables,
               !.child_pop = IF last THEN <<>> ELSE made.pop,
               !.pop = IF last THEN made.pop ELSE @,
               !.pc = IF last THEN "loop" ELSE "new_pop",
               !.last_op = [name |-> "new_pop", samples |-> <<>>],
               !.breaks = @ + Len(draws[1].breakpoints) + Len(draws[2].breakpoints)]

(* --------------------------- specifications --------------------------- *)

\* The reference run takes the step when it stands where the run stands.
RefCall == [call EXCEPT !.simplification_interval = 1]
Lockstep(stepped) == IF ref.pc = run.pc THEN stepped ELSE ref

Sizes == {ng \in (1..MaxPop) \X (0..MaxGenerations) : ng[1] * ng[2] <= MaxChildren}

\* diploid_sim(diploid_pop_size, generations, simplification_interval) follows the
\* cell that defines the integer-position add_inheritance_paths and new_pop.
\* It calls initialise_pop(tables, generations, diploid_pop_size), with three
\* arguments; the initialise_pop of that cell takes two and reads the cohort
\* size from the global diploid_pop_size, as new_pop does.  Which definition
\* is bound when diploid_sim runs depends on the cells the kernel has run:
\* initialise_pop_arity = 2 is the definition of the notebook (the call raises
\* TypeError), 3 a definition that accepts the call.  The cohort size passed
\* and the global are taken to agree, as in diploid_sim(6, ...) of the notebook.
DiploidCalls ==
  {[program |-> "diploid_sim", advancer |-> "new_pop", policy |-> "integer",
    diploid_pop_size |-> ng[1], generations |-> ng[2], simplification_interval |-> k,
    initialise_pop_arity |-> a] :
     ng \in Sizes, k \in (0 - 1)..MaxInterval, a \in 2..3}

\* simple_diploid_sim(generations): with new_population and the first or the
\* second add_inheritance_paths, and redefined with new_pop and the third.
SimpleCalls ==
  {[program |-> "simple_diploid_sim", advancer |-> "new_population", policy |-> "norec",
    diploid_pop_size |-> ng[1], generations |-> ng[2], simplification_interval |-> 0,
    initialise_pop_arity |-> 2] :
     ng \in Sizes}
  \cup
  {[program |-> "simple_diploid_sim", advancer |-> ap[1], policy |-> ap[2],
    diploid_pop_size |-> 1, generations |-> g, simplification_interval |-> 0,
    initialise_pop_arity |-> 2] :
     ap \in {<<"new_population", "continuous">>, <<"new_pop", "integer">>},
     g \in 0..MaxGenerations}

\* Direct calls of one of the three definitions of add_inheritance_paths, for
\* the two genomes of one child of one founder individual.
PathCalls ==
  {[program |-> "add_inheritance_paths", advancer |-> "new_pop", policy |-> p,
    diploid_pop_size |-> 1, generations |-> 1, simplification_interval |-> 0,
    initialise_pop_arity |-> 2] :
     p \in {"norec", "continuous", "integer"}}

\* The tables when the loop over the child's genomes is entered.
PathsStart ==
  LET founders == initialise_pop(EmptyTables, 1, 1)
      made == make_diploid(founders.tables, 0, <<0, 0>>)
  IN [FreshRun(0) EXCEPT !.pc = "paths", !.tables = made.tables, !.pop = founders.pop,
                         !.child_pop = dict_set(<<>>, made.individual_id, made.genomes)]

Init ==
  /\ call \in DiploidCalls
  /\ run = FreshRun(call.generations)
  /\ ref = FreshRun(call.generations)

InitSimple ==
  /\ call \in SimpleCalls
  /\ run = FreshRun(call.generations)
  /\ ref = Off

InitPaths ==
  /\ call \in PathCalls
  /\ run = PathsStart
  /\ ref = Off

\* add_inheritance_paths(tables, prev_pop[parent_individual], child_genome) for
\* the next genome of the child; last_op.samples holds the genomes done and
\* last_op.draws what was drawn for each.
AddPaths ==
  /\ run.pc = "paths"
  /\ \E draw \in PolicyDraws(call.policy, MaxBreaks) :
       LET done == run.last_op.samples
           child_genomes == run.child_pop[1].value
           child_genome == child_genomes[Len(done) + 1]
       IN run' = [run EXCEPT
                    !.tables = add_inheritance_paths(call.policy, @, run.pop[1].value,
                                                     child_genome, draw),
                    !.last_op = [name |-> "add_inheritance_paths",
                                 samples |-> Append(done, child_genome),
                                 draws |-> IF done = <<>> THEN <<draw>>
                                           ELSE Append(run.last_op.draws, draw)],
                    !.breaks = @ + Len(draw.breakpoints),
                    !.pc = IF Len(done) + 1 = Len(child_genomes) THEN "done" ELSE "paths"]
  /\ UNCHANGED <<call, ref>>

Start ==
  /\ run.pc = "start"
  /\ call.program = "diploid_sim"
  /\ run' = diploid_sim_start(run, call)
  /\ ref' = Lockstep(diploid_sim_start(ref, RefCall))
  /\ UNCHANGED call

SimpleStart ==
  /\ run.pc = "start"
  /\ call.program = "simple_diploid_sim"
  /\ run' = simple_diploid_sim_start(run, call)
  /\ UNCHANGED <<call, ref>>

BeginGeneration ==
  /\ run.pc = "loop"
  /\ run.generations > 0
  /\ run' = begin_generation(run)
  /\ ref' = Lockstep(begin_generation(ref))
  /\ UNCHANGED call

Choices(pop) == (1..Len(pop)) \X (1..Len(pop))
DrawPairs ==
  {d \in PolicyDraws(call.policy, MaxBreaks) \X PolicyDraws(call.policy, MaxBreaks) :
     run.breaks + Len(d[1].breakpoints) + Len(d[2].breakpoints) <= MaxRunBreaks}

NewPop ==
  /\ run.pc = "new_pop"
  /\ call.advancer = "new_pop"
  /\ \E choice \in Choices(run.pop), draws \in DrawPairs :
        /\ run' = new_pop_step(run, call, choice, draws)
        /\ ref' = Lockstep(new_pop_step(ref, RefCall, choice, draws))
  /\ UNCHANGED call

NewPopulation ==
  /\ run.pc = "new_pop"
  /\ call.advancer = "new_population"
  /\ \E first_choice \in Choices(run.pop), choice \in Choices(run.pop), draws \in DrawPairs :
        run' = new_population_step(run, call, first_choice, choice, draws)
  /\ UNCHANGED <<call, ref>>

Cadence ==
  /\ run.pc = "advanced"
  /\ run' = cadence(run, call)
  /\ ref' = Lockstep(cadence(ref, RefCall))
  /\ UNCHANGED call

Finish ==
  /\ run.pc = "loop"
  /\ run.generations = 0
  /\ call.program = "diploid_sim"
  /\ run' = diploid_sim_finish(run)
  /\ ref' = Lockstep(diploid_sim_finish(ref))
  /\ UNCHANGED call

SimpleFinish ==
  /\ run.pc = "loop"
  /\ run.generations = 0
  /\ call.program = "simple_diploid_sim"
  /\ run' = simple_diploid_sim_finish(run)
  /\ UNCHANGED <<call, ref>>

\* The keyword arguments of the notebook's calls of ts.simplify.
NotebookOptions ==
  {Options(TRUE, FALSE, FALSE), Options(TRUE, TRUE, FALSE),
   Options(FALSE, TRUE, FALSE), Options(FALSE, TRUE, TRUE)}

TsSimplify ==
  /\ run.pc = "done"
  /\ call.program = "simple_diploid_sim"
  /\ call.advancer = "new_population"
  /\ \E options \in NotebookOptions : run' = ts_simplify_cell(run, options)
  /\ UNCHANGED <<call, ref>>

\* A second simplification of the tables diploid_sim has just simplified,
\* against the genomes of the population or against every node.
Resimplify ==
  /\ run.pc \in {"loop", "done"}
  /\ run.last_op.name = "simplify_tables"
  /\ call.program = "diploid_sim"
  /\ \E samples \in {dict_genomes(run.pop),
                     [j \in 1..NumRows(run.tables.nodes) |-> j - 1]} :
       run' = resimplify(run, samples)
  /\ UNCHANGED <<call, ref>>

Next == Start \/ BeginGeneration \/ NewPop \/ Cadence \/ Finish

NextSimple == SimpleStart \/ BeginGeneration \/ NewPop \/ NewPopulation \/ SimpleFinish

\* Runs of diploid_sim, each beside the run that simplifies every generation.
Spec == Init /\ [][Next]_vars

\* Runs of simple_diploid_sim.
SpecSimple == InitSimple /\ [][NextSimple]_vars

\* Calls of add_inheritance_paths on drawn inputs.
SpecPaths == InitPaths /\ [][AddPaths]_vars

NextCells == NextSimple \/ TsSimplify

\* Runs of simple_diploid_sim and the cells that simplify what it returns.
SpecCells == InitSimple /\ [][NextCells]_vars

\* Runs of diploid_sim, and a repeated simplification of what it simplified.
SpecTwice == Init /\ [][Next \/ Resimplify]_vars

\* Runs of either driver.
SpecAll == (Init \/ InitSimple) /\ [][Next \/ NextSimple]_vars

\* Runs of either driver that go on while a step is left to take: the
\* drivers are loops of one thread that nothing suspends.
SpecAllFair == SpecAll /\ WF_vars(Next \/ NextSimple)

(* ------------------------------ claims -------------------------------- *)

EdgesOf(tables) == Range(tables.edges)
EdgesInto(tables, u) == {e \in EdgesOf(tables) : e.child = u}
Sites == 0..(sequence_length - 1)
Covers(e, x) == e.left <= x /\ x < e.right
\* The genomes add_inheritance_paths was called for.
PathChildren == Range(run.last_op.samples)

\* No site lies in two edges of child u, and the edges cover exactly [lo, hi).
PartitionOf(tables, u, lo, hi) ==
  /\ \A x \in Sites : Cardinality({e \in EdgesInto(tables, u) : Covers(e, x)})
                        = IF lo <= x /\ x < hi THEN 1 ELSE 0
  /\ \A e \in EdgesInto(tables, u) : lo <= e.left /\ e.right <= hi

\* C3, as claimed: after a call of add_inheritance_paths, whichever of the three
\* definitions is in force, the edges of the child do not overlap and their
\* union is [0, sequence_length).
C3_PartitionAllPolicies ==
  call.program = "add_inheritance_paths" =>
    \A u \in PathChildren : PartitionOf(run.tables, u, 0, sequence_length)

\* C3, amended: the edges one call appends for a child never overlap; with
\* either crossover definition their union is [0, sequence_length), with the
\* no-recombination definition it is the single edge over focal_region.
C3_Partition ==
  call.program = "add_inheritance_paths" =>
    \A u \in PathChildren :
      IF call.policy = "norec"
      THEN /\ PartitionOf(run.tables, u, focal_left, focal_right)
           /\ Cardinality(EdgesInto(run.tables, u)) = 1
      ELSE PartitionOf(run.tables, u, 0, sequence_length)

\* C3 witness: both genomes of a child have their edges, one of them with
\* three edges from two crossovers.
C3_Witness ==
  /\ call.program = "add_inheritance_paths"
  /\ call.policy = "integer"
  /\ run.pc = "done"
  /\ \E u \in PathChildren : Cardinality(EdgesInto(run.tables, u)) = 3

\* C4, as claimed: every edge add_inheritance_paths appends has
\* 0 <= left < right <= sequence_length.
C4_EdgeGeometry ==
  call.program = "add_inheritance_paths" =>
    \A e \in EdgesOf(run.tables) :
      0 <= e.left /\ e.left < e.right /\ e.right <= sequence_length

\* C4 as a state: a call has appended an edge.
C4_Reached ==
  /\ call.program = "add_inheritance_paths"
  /\ run.tables.edges # <<>>

NodeIds(tables) == 0..(NumRows(tables.nodes) - 1)
OriginOf(tables, u) == Row(tables.nodes, u).origin
\* The genomes grouped with u in one individual, by origin.
MatesOf(tables, u) ==
  {OriginOf(tables, v) :
     v \in {w \in NodeIds(tables) :
              Row(tables.nodes, w).individual = Row(tables.nodes, u).individual}}

\* The genealogy of a ledger with every node named by its origin, which no
\* relabeling changes: node times and flags, the grouping into individuals,
\* and the parent, child and interval of every edge.
Genealogy(tables) ==
  [nodes |-> {[origin |-> OriginOf(tables, u), time |-> node_time(tables, u),
               flags |-> Row(tables.nodes, u).flags, mates |-> MatesOf(tables, u)] :
                u \in NodeIds(tables)},
   edges |-> {[left |-> e.left, right |-> e.right,
               parent |-> OriginOf(tables, e.parent),
               child |-> OriginOf(tables, e.child)] : e \in EdgesOf(tables)},
   rows |-> <<NumRows(tables.nodes), NumRows(tables.edges), NumRows(tables.individuals)>>]

PositiveInterval ==
  /\ call.program = "diploid_sim"
  /\ call.simplification_interval > 0

SampleAncestry(tables) ==
  UNION {Range(Lineage(tables.edges, x, s)) :
           x \in Sites,
           s \in {u \in NodeIds(tables) : Row(tables.nodes, u).flags = NODE_IS_SAMPLE}}

C5_TimeMonotone ==
  \A e \in EdgesOf(run.tables) :
     node_time(run.tables, e.parent) > node_time(run.tables, e.child)

\* C5 witness: new_pop has added edges to a ledger that was simplified
\* before, the children pointing at relabeled parents.
C5_Witness ==
  /\ call.program = "diploid_sim"
  /\ run.last_op.name = "new_pop"
  /\ run.pc = "advanced"
  /\ run.generations + 2 <= call.generations
  /\ call.simplification_interval = 1
  /\ \E e \in EdgesOf(run.tables) : node_time(run.tables, e.child) = run.generations

\* simplify_tables has just returned.
JustSimplified ==
  /\ run.last_op.name = "simplify_tables"
  /\ run.raised = "none"
  /\ run.pc \in {"loop", "done"}

GenomesOf(tables, i) ==
  SortedSeq({u \in NodeIds(tables) : Row(tables.nodes, u).individual = i})

\* C9, as claimed: with either advancer the parents recorded for an individual
\* are the parents its genomes inherit from: the j-th genome has its edges
\* from the genomes of the j-th recorded parent.
C9_ParentsChosenOnce ==
  call.program = "simple_diploid_sim" =>
    \A i \in 0..(NumRows(run.tables.individuals) - 1) :
      LET parents == Row(run.tables.individuals, i).parents
          genomes == GenomesOf(run.tables, i)
      IN parents # <<>> =>
           \A j \in DOMAIN genomes :
             \A e \in EdgesInto(run.tables, genomes[j]) :
               Row(run.tables.nodes, e.parent).individual = parents[j]

EdgeRowsInto(tables, u) == {i \in DOMAIN tables.edges : tables.edges[i].child = u}

\* C10: a returned simple_diploid_sim without recombination has 2N nodes at
\* each time G, ..., 0; a founder has no edge into it and every other node
\* exactly one, from a node of the cohort one generation older.
C10_NoRecombinationShape ==
  (/\ call.program = "simple_diploid_sim"
   /\ call.policy = "norec"
   /\ run.pc = "done") =>
     LET tables == run.tables
     IN /\ \A t \in 0..call.generations :
             Cardinality({u \in NodeIds(tables) : node_time(tables, u) = t})
               = 2 * call.diploid_pop_size
        /\ \A u \in NodeIds(tables) : node_time(tables, u) \in 0..call.generations
        /\ \A u \in NodeIds(tables) :
             IF node_time(tables, u) = call.generations
             THEN EdgeRowsInto(tables, u) = {}
             ELSE /\ Cardinality(EdgeRowsInto(tables, u)) = 1
                  /\ \A i \in EdgeRowsInto(tables, u) :
                       node_time(tables, tables.edges[i].parent) = node_time(tables, u) + 1

\* C10 witness: one generation of two individuals has been simulated.
C10_Witness ==
  /\ call.program = "simple_diploid_sim"
  /\ call.policy = "norec"
  /\ run.pc = "done"
  /\ call.diploid_pop_size = 2
  /\ call.generations = 1
  /\ NumRows(run.tables.edges) = 4

\* The roots of the trees of a tree sequence at site x: where the lineages
\* of its samples end.
RootsAt(tables, x) ==
  {The({ln[Len(ln)] : ln \in {Lineage(tables.edges, x, s)}}) :
     s \in {u \in NodeIds(tables) : Row(tables.nodes, u).flags = NODE_IS_SAMPLE}}

\* ts.simplify(ts.samples(time=0)) has just been run on a simulation without
\* recombination.
NorecSimplifiedDefault ==
  /\ run.pc = "simplified"
  /\ call.policy = "norec"
  /\ run.last_op.options = Options(FALSE, TRUE, FALSE)

\* C11 as stated: at most N genomes at time 0 and at most N roots.
C11_AtMostN ==
  NorecSimplifiedDefault =>
     /\ Cardinality({u \in NodeIds(run.tables) : node_time(run.tables, u) = 0})
          <= call.diploid_pop_size
     /\ \A x \in Sites : Cardinality(RootsAt(run.tables, x)) <= call.diploid_pop_size

\* C11: after a simulation without recombination is simplified once on its
\* time-0 genomes, the ledger has exactly 2N genomes at time 0, they are its
\* samples, and at every site it has at most 2N roots.
C11_RootCountBound ==
  NorecSimplifiedDefault =>
     /\ Cardinality({u \in NodeIds(run.tables) : node_time(run.tables, u) = 0})
          = 2 * call.diploid_pop_size
     /\ {u \in NodeIds(run.tables) : node_time(run.tables, u) = 0}
          = 0..(2 * call.diploid_pop_size - 1)
     /\ \A u \in NodeIds(run.tables) :
          (Row(run.tables.nodes, u).flags = NODE_IS_SAMPLE) <=> (node_time(run.tables, u) = 0)
     /\ \A x \in Sites : Cardinality(RootsAt(run.tables, x)) <= 2 * call.diploid_pop_size

\* C11 witness: two generations of two individuals whose four time-0 genomes
\* descend from one genome in the focal region: one root there, four elsewhere.
C11_Witness ==
  /\ NorecSimplifiedDefault
  /\ call.diploid_pop_size = 2
  /\ call.generations >= 1
  /\ Cardinality(RootsAt(run.tables, focal_left)) = 1
  /\ Cardinality(RootsAt(run.tables, 0)) = 4

\* simplify_tables has just been called again on simplified tables, with
\* the genomes of the population as samples, or with every node as a sample.
Resimplified == run.pc = "resimplified"
AgainstPopulation == run.last_op.samples = dict_genomes(run.last_op.before.pop)
AgainstAllNodes == Len(run.last_op.samples) = NumRows(run.last_op.before.tables.nodes)
IdentityMap(node_map) == \A j \in DOMAIN node_map : node_map[j] = j - 1

RetainedAllNodes ==
  /\ run.pc = "simplified"
  /\ run.last_op.options = Options(TRUE, FALSE, FALSE)
  /\ Len(run.last_op.samples) = 2 * call.diploid_pop_size

\* C13 as stated: the samples become the nodes 0..2N-1 and no edge is added.
C13_SamplesRelabelled ==
  RetainedAllNodes =>
     /\ NumRows(run.tables.nodes) = NumRows(run.last_op.ts.nodes)
     /\ {NumpyIndex(run.last_op.node_map, u) : u \in Range(run.last_op.samples)}
          = 0..(2 * call.diploid_pop_size - 1)
     /\ NumRows(run.tables.edges) <= NumRows(run.last_op.ts.edges)
     /\ EdgesOf(run.tables) \subseteq EdgesOf(run.last_op.ts)

\* C13: simplifying on the 2N time-0 genomes with keep_unary=True and
\* filter_nodes=False leaves the node table as it was but for the sample
\* flags, every node keeps its id (the samples are the last 2N nodes, where
\* the simulation put them), and after a simulation without recombination
\* every edge left is an edge that was there before.
C13_RetainAllNodes ==
  RetainedAllNodes =>
     /\ NumRows(run.tables.nodes) = NumRows(run.last_op.ts.nodes)
     /\ IdentityMap(run.last_op.node_map)
     /\ \A u \in NodeIds(run.tables) :
          Row(run.tables.nodes, u)
            = [Row(run.last_op.ts.nodes, u) EXCEPT
                 !.flags = IF node_time(run.last_op.ts, u) = 0 THEN NODE_IS_SAMPLE ELSE 0]
     /\ Range(run.last_op.samples)
          = (2 * call.diploid_pop_size * call.generations)
              ..(2 * call.diploid_pop_size * (call.generations + 1) - 1)
     /\ (call.policy = "norec") =>
           /\ EdgesOf(run.tables) \subseteq EdgesOf(run.last_op.ts)
           /\ NumRows(run.tables.edges) <= NumRows(run.last_op.ts.edges)

\* C13 witness: a simulation of three generations with a genome that left no
\* descendant at time 0, so that an edge is removed.
C13_Witness ==
  /\ RetainedAllNodes
  /\ call.policy = "norec"
  /\ call.generations = 3
  /\ NumRows(run.tables.edges) < NumRows(run.last_op.ts.edges)
  /\ NumRows(run.tables.nodes) = 8

\* C14: in both crossover versions of add_inheritance_paths a position drawn
\* an even number of times is no edge boundary and one drawn an odd number of
\* times is exactly one, so that the child gets one edge more than there are
\* positions drawn an odd number of times.
C14_CoincidentCancel ==
  (call.program = "add_inheritance_paths" /\ call.policy \in {"continuous", "integer"}) =>
     \A k \in DOMAIN run.last_op.samples :
        LET breakpoints == run.last_op.draws[k].breakpoints
            odd == {pos \in Range(breakpoints) : Count(breakpoints, pos) % 2 = 1}
            rows == EdgeRowsInto(run.tables, run.last_op.samples[k])
        IN /\ Cardinality(rows) = 1 + Cardinality(odd)
           /\ {run.tables.edges[i].right : i \in rows} = odd \cup {sequence_length}

IsPrefix(a, b) == Len(a) <= Len(b) /\ SubSeq(b, 1, Len(a)) = a

\* One step of an advancer: the creation of the founders, or one iteration
\* of the loop of new_pop or new_population.
C15_Step ==
  /\ (run.pc = "new_pop") =>
        LET N == call.diploid_pop_size
            nodes == run'.tables.nodes
        IN /\ IsPrefix(run.tables.nodes, nodes)
           /\ IsPrefix(run.tables.individuals, run'.tables.individuals)
           /\ IsPrefix(run.tables.edges, run'.tables.edges)
           /\ Len(nodes) = Len(run.tables.nodes) + 2
           /\ Len(run'.tables.individuals) = Len(run.tables.individuals) + 1
           /\ \A j \in (Len(run.tables.nodes) + 1)..Len(nodes) :
                /\ nodes[j].time = run.generations
                /\ nodes[j].individual = Len(run.tables.individuals)
           /\ (run'.pc # "new_pop") =>
                 /\ dict_keys(run'.pop)
                      = [i \in 1..N |-> Len(run'.tables.individuals) - N + i - 1]
                 /\ dict_genomes(run'.pop) = [i \in 1..(2 * N) |-> Len(nodes) - 2 * N + i - 1]
  /\ (run.pc = "start" /\ run'.pc = "loop") =>
        /\ Len(run'.tables.nodes) = 2 * call.diploid_pop_size
        /\ Len(run'.tables.individuals) = call.diploid_pop_size
        /\ \A j \in DOMAIN run'.tables.nodes : run'.tables.nodes[j].time = call.generations
  /\ (\/ ~IsPrefix(run.tables.nodes, run'.tables.nodes)
      \/ ~IsPrefix(run.tables.individuals, run'.tables.individuals)
      \/ Len(run'.tables.edges) < Len(run.tables.edges)) =>
        /\ run'.last_op.name \in {"simplify_tables", "ts.simplify"}
        /\ run.last_op # run'.last_op

\* C15: a call of new_pop or new_population leaves every row of the ledger
\* as it was and where it was and appends N individuals and 2N nodes at the
\* new time, whose ids are the largest of the ledger; only a simplification
\* removes rows.
C15_AppendOnly == [][C15_Step]_vars

\* C15 witness: new_pop has returned after extending a ledger that had been
\* simplified before.
C15_Witness ==
  /\ run.pc = "advanced"
  /\ run.last_op.name = "new_pop"
  /\ run.compactions # <<>>
  /\ NumRows(run.tables.nodes) > 2 * call.diploid_pop_size
  /\ NumRows(run.tables.edges) > 2 * call.diploid_pop_size

\* The generations at which the loop of diploid_sim(N, G, k) simplifies.
Intermediate(G, k) == {g \in 1..(G - 1) : (G - g) % k = 0}
Descending(S) == [i \in 1..Cardinality(S) |-> SortedSeq(S)[Cardinality(S) + 1 - i]]

ValidPopulation(tables, pop, time) ==
  \A i \in DOMAIN pop : \A j \in DOMAIN pop[i].value :
     LET u == pop[i].value[j]
     IN /\ u \in NodeIds(tables)
        /\ node_time(tables, u) = time
        /\ Row(tables.nodes, u).individual = pop[i].key

SimplifyStep ==
  /\ Len(run'.compactions) = Len(run.compactions) + 1
  /\ run'.raised = "none"

C18_Step ==
  SimplifyStep =>
     /\ Len(run'.pop) = Len(run.pop)
     /\ \A i \in DOMAIN run.pop :
          /\ Len(run'.pop[i].value) = Len(run.pop[i].value)
          /\ \A j \in DOMAIN run.pop[i].value :
               /\ OriginOf(run'.tables, run'.pop[i].value[j])
                    = OriginOf(run.tables, run.pop[i].value[j])
               /\ Row(run'.tables.nodes, run'.pop[i].value[j]).individual = run'.pop[i].key

DriverCall ==
  \/ call.program = "simple_diploid_sim"
  \/ PositiveInterval

\* C20: for every G >= 0 the loop of the driver comes to its end and the
\* driver returns, with generations counted down one by one from G to 0.
C20_ReachesDone ==
  DriverCall => <>(run.pc = "done" /\ run.generations = 0)

====
